---- MODULE Spec2Model ----
(***************************************************************************)
(* Model of the grocery catalog: the SQLite products table                 *)
(* (database.py), the Flask request handlers that write and read it        *)
(* (app.py) and the admin session that guards the import routes.           *)
(*                                                                         *)
(* Text is a sequence of one-character strings, so that str.strip(),       *)
(* float() and the LIKE operator are computed, not assumed.                *)
(* The products table is the sequence of its rows in rowid order; the      *)
(* AUTOINCREMENT id itself is not modelled (no property here reads it).    *)
(* The theme is the process-wide dict that /change-theme reloads from the   *)
(* uploaded config.xml.                                                    *)
(* Only POST requests are actions: a GET renders a template and changes    *)
(* nothing.  Connecting and committing are taken to succeed; a row's       *)
(* INSERT statement failing in the storage engine is an input of the       *)
(* bulk imports, explored in SpecStorage.                                  *)
(***************************************************************************)
EXTENDS Integers, Sequences, FiniteSets, TLC

\* ------------------------------------------------------------------ bounds
MaxProducts == 2   \* inserting requests are explored while the table has fewer rows
MaxBatch    == 1   \* every row list up to this length is handed to a bulk import

\* ------------------------------------------------------- values and text
\* Python's None / SQL NULL, and a key that a dict or a form does not have.
None   == <<"<None>">>
Absent == <<"<Absent>">>

IsStr(v) == v # None /\ v # Absent

WS == {" "}
Digits == {"0", "1", "2"}

RECURSIVE lstrip(_)
lstrip(s) == IF s = <<>> THEN s
             ELSE IF Head(s) \in WS THEN lstrip(Tail(s)) ELSE s

RECURSIVE rstrip(_)
rstrip(s) == IF s = <<>> THEN s
             ELSE IF s[Len(s)] \in WS THEN rstrip(SubSeq(s, 1, Len(s) - 1)) ELSE s

\* str.strip()
strip(s) == rstrip(lstrip(s))

DigitVal(c) == CASE c = "0" -> 0 [] c = "1" -> 1 [] c = "2" -> 2 [] OTHER -> 0

RECURSIVE DecVal(_)
DecVal(s) == IF s = <<>> THEN 0
             ELSE 10 * DecVal(SubSeq(s, 1, Len(s) - 1)) + DigitVal(s[Len(s)])

AllDigits(s) == s # <<>> /\ \A i \in 1..Len(s) : s[i] \in Digits

\* float(x): None raises TypeError; text is stripped, then an optional sign and
\* decimal digits give a number, "nan" gives NaN, anything else raises ValueError
\* (fractions, exponents and "inf" do not occur in the texts used here).
\* The result is [err, nan, val]; val is meaningful when err = "" and ~nan.
float(x) ==
    IF x = None THEN [err |-> "TypeError", nan |-> FALSE, val |-> 0]
    ELSE LET t == strip(x)
             u == IF t # <<>> /\ Head(t) \in {"-", "+"} THEN Tail(t) ELSE t
             neg == t # <<>> /\ Head(t) = "-"
         IN IF u = <<"n", "a", "n">> THEN [err |-> "", nan |-> TRUE, val |-> 0]
            ELSE IF AllDigits(u)
                 THEN [err |-> "", nan |-> FALSE,
                       val |-> IF neg THEN 0 - DecVal(u) ELSE DecVal(u)]
                 ELSE [err |-> "ValueError", nan |-> FALSE, val |-> 0]

\* ---------------------------------------------------------------- LIKE
\* SQLite folds ASCII case in LIKE.
lower(c) == CASE c = "A" -> "a" [] c = "B" -> "b" [] c = "D" -> "d"
              [] c = "T" -> "t" [] OTHER -> c

\* SQLite's LIKE without an ESCAPE clause: % matches any run of characters,
\* _ matches exactly one, every other character (backslash included) matches
\* itself up to ASCII case.
RECURSIVE LikeMatch(_, _)
LikeMatch(pat, s) ==
    IF pat = <<>> THEN s = <<>>
    ELSE IF Head(pat) = "%"
         THEN LikeMatch(Tail(pat), s) \/ (s # <<>> /\ LikeMatch(pat, Tail(s)))
         ELSE IF s = <<>> THEN FALSE
              ELSE IF Head(pat) = "_" THEN LikeMatch(Tail(pat), Tail(s))
                   ELSE lower(Head(pat)) = lower(Head(s))
                        /\ LikeMatch(Tail(pat), Tail(s))

\* column LIKE ? in a WHERE clause: NULL LIKE anything is not true.
SqlLike(col, pat) == col # None /\ LikeMatch(pat, col)

\* ------------------------------------------------------------- the table
VARIABLES products, admin_logged_in, theme, config_xml, last

vars == <<products, admin_logged_in, theme, config_xml, last>>

\* products(name TEXT NOT NULL, price REAL NOT NULL, category TEXT)
Row(name, price, category) == [name |-> name, price |-> price, category |-> category]

Names(table) == {table[i].name : i \in 1..Len(table)}

\* CREATE UNIQUE INDEX idx_products_name ON products(name)
UniqueViolation(table, name) == name \in Names(table)

\* name TEXT NOT NULL, price REAL NOT NULL; sqlite3 binds a NaN float as NULL.
NotNullViolation(name, pr) == name = None \/ pr.nan

\* INSERT INTO products ... VALUES (?, ?, ?): "" when the row is stored,
\* otherwise the IntegrityError that the statement raises.
InsertError(table, name, pr) ==
    IF NotNullViolation(name, pr) THEN "IntegrityError: NOT NULL constraint failed"
    ELSE IF UniqueViolation(table, name) THEN "IntegrityError: UNIQUE constraint failed"
    ELSE ""

\* INSERT OR IGNORE INTO products ...: the statement's rowcount (1 stored, 0 ignored).
InsertOrIgnoreRowcount(table, name, pr) ==
    IF InsertError(table, name, pr) = "" THEN 1 ELSE 0

Stored(table, name, pr, category) == Append(table, Row(name, pr.val, category))

\* The record kept of the last request: its operation, its argument, the
\* table as it was before the request, the indices of the rows whose INSERT
\* failed in the storage engine, the exception or early exit that left the
\* request ("" when none), and what it reported.
LastStorage(op, arg, storage_failed, raised, success, error_count, errors, result) ==
    [op |-> op, arg |-> arg, pre |-> products, storage_failed |-> storage_failed,
     raised |-> raised, success |-> success, error_count |-> error_count,
     errors |-> errors, result |-> result]

Last(op, arg, raised, success, error_count, errors, result) ==
    LastStorage(op, arg, {}, raised, success, error_count, errors, result)

NoRequest == [kind |-> "none", rows |-> <<>>]

\* ------------------------------------------------------------- inputs
\* A candidate row: the three fields of a form, a parsed CSV line or a dict.
R1 == Row(<<"a", "%">>, <<"0">>, <<"c", "_">>)
R2 == Row(<<" ", "a", "%", " ">>, <<"2">>, <<" ">>)
R3 == Row(<<"x">>, <<"a", "b", "c">>, <<>>)
R4 == Row(<<" ">>, <<"1">>, <<>>)
R5 == Row(<<"a", "b">>, <<"-", "1">>, <<>>)
R6 == Row(<<"B">>, <<"n", "a", "n">>, <<>>)
R7 == Row(<<"b", "\\">>, <<" ", "1">>, None)

Rows == {R1, R2, R3, R4, R5, R6, R7}

\* Rows whose names are 199, 200 and 201 characters long once trimmed.
Rep(n, c) == [i \in 1..n |-> c]

LenRows ==
    {Row(pad \o Rep(n, c) \o pad, <<"1">>, <<>>) :
        n \in 199..201, c \in {"a", "b"}, pad \in {<<>>, <<" ">>}}

\* The two product names of the discount example, and the query "100%".
Discount100PercentToday ==
    <<"D", "i", "s", "c", "o", "u", "n", "t", " ", "1", "0", "0", "%", " ",
      "T", "o", "d", "a", "y">>
Discount1000Today ==
    <<"D", "i", "s", "c", "o", "u", "n", "t", " ", "1", "0", "0", "0",
      "T", "o", "d", "a", "y">>
Query100Percent == <<"1", "0", "0", "%">>

DiscountRows ==
    {Row(n, pr, c) : n \in {Discount100PercentToday, Discount1000Today},
                     pr \in {<<"1">>, <<"2">>}, c \in {<<>>, <<"c", "_">>}}

DiscountQueries == {Query100Percent, <<"1", "0", "0", "0">>, <<"T", "o">>}

AllRows == Rows \cup LenRows \cup DiscountRows

\* A form field is text: request.form never yields None.
FormRows == {r \in Rows : r.name # None /\ r.price # None /\ r.category # None}

\* Product objects handed to DatabaseManager.insert_product: price is a float.
ProductInputs ==
    { [name |-> <<"a", "%">>, price |-> float(<<"0">>), category |-> None],
      [name |-> <<" ", "a", "%", " ">>, price |-> float(<<"1">>), category |-> <<>>],
      [name |-> <<>>, price |-> float(<<"-", "1">>), category |-> <<"c", "_">>],
      [name |-> None, price |-> float(<<"1">>), category |-> None],
      [name |-> <<"B">>, price |-> float(<<"n", "a", "n">>), category |-> None] }

RECURSIVE SeqsUpTo(_, _)
SeqsUpTo(S, n) ==
    IF n = 0 THEN {<<>>}
    ELSE LET shorter == SeqsUpTo(S, n - 1)
         IN shorter \cup {Append(b, r) : b \in {c \in shorter : Len(c) = n - 1}, r \in S}

\* Longer row lists: a repeated row, names equal once trimmed, an invalid row
\* before and after valid ones, and the three-row list whose second row has a
\* non-numeric price.
LongerBatches ==
    { <<R1, R1>>, <<R1, R2>>, <<R2, R1>>, <<R3, R1>>, <<R4, R5>>, <<R6, R5>>,
      <<R7, R1>>, <<R5, R6, R7>>, <<R1, R3, R5>> }

\* Every row list up to the bound, and the longer ones.
Batches == SeqsUpTo(Rows, MaxBatch) \cup LongerBatches

\* What an upload to /import-file can be besides a parsed CSV.
NoFilePart == [kind |-> "no file part", rows |-> <<>>]
EmptyFilename == [kind |-> "empty filename", rows |-> <<>>]
Undecodable == [kind |-> "not utf-8", rows |-> <<>>]
CsvFile(rows) == [kind |-> "csv", rows |-> rows]

Uploads == {NoFilePart, EmptyFilename, Undecodable} \cup {CsvFile(b) : b \in Batches}

\* A seed dataset: whether the file exists, how its header row is capitalised
\* ("name,price,category" or "Name,Price,Category"), and its data rows.
Dataset(exists, header, rows) == [exists |-> exists, header |-> header, rows |-> rows]

SeedLists == {<<R1>>, <<R2, R5>>, <<R3, R7>>, <<R4, R6>>}

Datasets ==
    {Dataset(FALSE, "lower", <<>>)}
    \cup {Dataset(TRUE, h, b) : h \in {"lower", "Capital"}, b \in SeedLists}

\* theme, ADMIN_CREDENTIALS = load_config(): the defaults.
ADMIN_CREDENTIALS == [username |-> "admin", password |-> "TXJXb2JiaW5z"]

Usernames == {"admin", "guest"}
Passwords == {"TXJXb2JiaW5z", "letmein"}

Queries == {<<>>, <<"a", "%">>, <<"_">>, <<"\\">>, <<"B">>, <<"c", "_">>}

\* ---------------------------------------------------------- config.xml
\* defaults['theme'] in load_config.
ThemeKeys == {"bg", "text", "accent", "btn_bg", "btn_text", "container", "border", "font"}

DefaultTheme ==
    [bg |-> "#f8f9fa", text |-> "#212529", accent |-> "#0d6efd", btn_bg |-> "#0d6efd",
     btn_text |-> "#ffffff", container |-> "#ffffff", border |-> "#dee2e6",
     font |-> "system-ui, sans-serif"]

\* child.text of an element with no text.
NoText == "<None>"

\* The content of config.xml: whether the file exists, whether it parses, whether
\* its root has a <theme> node, and that node's children in document order.
Config(exists, wellformed, has_theme, children) ==
    [exists |-> exists, wellformed |-> wellformed, has_theme |-> has_theme,
     children |-> children]

Child(tag, text) == [tag |-> tag, text |-> text]

NoConfigFile == Config(FALSE, FALSE, FALSE, <<>>)

Configs ==
    { Config(TRUE, FALSE, FALSE, <<>>),
      Config(TRUE, TRUE, FALSE, <<>>),
      Config(TRUE, TRUE, TRUE, <<Child("bg", "#000000"), Child("text", "#ffffff")>>),
      Config(TRUE, TRUE, TRUE, <<Child("background_color", "#111111")>>),
      Config(TRUE, TRUE, TRUE, <<Child("bg", NoText)>>),
      Config(TRUE, TRUE, TRUE, <<Child("bg", "#000000"), Child("bg", "#111111")>>) }

\* for child in theme_node: if child.tag in defaults['theme']: ... = child.text
RECURSIVE theme_children(_, _)
theme_children(t, children) ==
    IF children = <<>> THEN t
    ELSE LET child == Head(children)
         IN theme_children(IF child.tag \in ThemeKeys
                           THEN [t EXCEPT ![child.tag] = child.text] ELSE t,
                           Tail(children))

\* The theme that load_config returns: ET.parse raising (no file, not XML) is
\* caught and gives the defaults.
load_config(config) ==
    IF ~config.exists \/ ~config.wellformed THEN DefaultTheme
    ELSE IF ~config.has_theme THEN DefaultTheme
    ELSE theme_children(DefaultTheme, config.children)

\* What an upload to /change-theme can be.
XmlFile(config) == [kind |-> "xml", config |-> config]

ThemeUploads == {NoFilePart, EmptyFilename} \cup {XmlFile(c) : c \in Configs}

Init ==
    /\ products = <<>>
    /\ admin_logged_in = FALSE
    /\ config_xml = NoConfigFile
    /\ theme = load_config(config_xml)
    /\ last = [op |-> "init", arg |-> NoRequest, pre |-> <<>>, storage_failed |-> {},
               raised |-> "", success |-> 0, error_count |-> 0, errors |-> <<>>, result |-> <<>>]

\* ------------------------------------------- DatabaseManager.insert_product
insert_product(Products) ==
    /\ Len(products) < MaxProducts
    /\ \E product \in Products :
          \E e \in {InsertError(products, product.name, product.price)} :
             /\ products' = IF e = ""
                            THEN Stored(products, product.name, product.price,
                                        product.category)
                            ELSE products
             /\ last' = Last("insert_product", product, e, 0, 0, <<>>, <<>>)
    /\ UNCHANGED <<admin_logged_in, theme, config_xml>>

\* ------------------------------------- DatabaseManager.bulk_insert_products
RowError(prod, reason) == [row |-> prod, reason |-> reason]

\* One iteration of the loop body on one dict: the exception it raises ("" when
\* none) and the values it binds to the INSERT OR IGNORE.
bulk_row(prod) ==
    LET name == IF IsStr(prod.name) THEN strip(prod.name) ELSE prod.name
        pr == float(prod.price)
        c0 == IF prod.category = Absent THEN <<>> ELSE prod.category
        c1 == IF IsStr(c0) THEN strip(c0) ELSE c0
        category == IF c1 = <<>> THEN None ELSE c1
        err == IF prod.name = Absent THEN "KeyError: 'name'"
               ELSE IF prod.name = None
                    THEN "AttributeError: 'NoneType' object has no attribute 'strip'"
               ELSE IF prod.price = Absent THEN "KeyError: 'price'"
               ELSE IF pr.err = "TypeError" THEN "TypeError: float() argument"
               ELSE IF pr.err = "ValueError"
                    THEN "ValueError: could not convert string to float"
               ELSE IF name = <<>> THEN "ValueError: Missing name"
               ELSE ""
    IN [err |-> err, name |-> name, price |-> pr, category |-> category]

\* The same loop body, tabulated once per input row.
bulk_row_of == [prod \in AllRows |-> bulk_row(prod)]

\* conn.execute raising sqlite3.OperationalError (disk I/O error, connection lost).
StorageFailure == "OperationalError: disk I/O error"

\* The sets of row indices at which the storage engine may fail.
FailSets(rows, storage_may_fail) ==
    IF storage_may_fail THEN SUBSET (1..Len(rows)) ELSE {{}}

\* The for loop from row i on: [table, success, error_count, errors,
\* storage_failed].  fails holds the indices of the rows at which conn.execute
\* raises; the except clause of the loop body catches that exception as well.
RECURSIVE bulk_loop(_, _, _, _, _, _, _, _)
bulk_loop(table, products_list, fails, i, success, error_count, errors, storage_failed) ==
    IF i > Len(products_list)
    THEN [table |-> table, success |-> success, error_count |-> error_count,
          errors |-> errors, storage_failed |-> storage_failed]
    ELSE LET prod == products_list[i]
             b == IF prod \in AllRows THEN bulk_row_of[prod] ELSE bulk_row(prod)
         IN IF b.err # ""
            THEN bulk_loop(table, products_list, fails, i + 1, success, error_count + 1,
                           Append(errors, RowError(prod, b.err)), storage_failed)
            ELSE IF i \in fails
                 THEN bulk_loop(table, products_list, fails, i + 1, success,
                                error_count + 1,
                                Append(errors, RowError(prod, StorageFailure)),
                                storage_failed \cup {i})
            ELSE IF InsertOrIgnoreRowcount(table, b.name, b.price) = 1
                 THEN bulk_loop(Stored(table, b.name, b.price, b.category),
                                products_list, fails, i + 1, success + 1, error_count,
                                errors, storage_failed)
                 ELSE bulk_loop(table, products_list, fails, i + 1, success,
                                error_count, errors, storage_failed)

bulk_result_failing(table, products_list, fails) ==
    bulk_loop(table, products_list, fails, 1, 0, 0, <<>>, {})

\* The loop when every statement reaches the storage engine.
bulk_result(table, products_list) == bulk_result_failing(table, products_list, {})

bulk_insert_products(Lists, storage_may_fail) ==
    /\ Len(products) < MaxProducts
    /\ \E products_list \in Lists :
          \E fails \in FailSets(products_list, storage_may_fail) :
             \E r \in {bulk_result_failing(products, products_list, fails)} :
                /\ products' = r.table
                /\ last' = LastStorage("bulk_insert_products", products_list,
                                       r.storage_failed, "", r.success,
                                       r.error_count, r.errors, <<>>)
    /\ UNCHANGED <<admin_logged_in, theme, config_xml>>

\* ------------------------------------------------------ session (app.py)
admin_login(username, password) ==
    /\ admin_logged_in' = IF username = ADMIN_CREDENTIALS.username
                             /\ password = ADMIN_CREDENTIALS.password
                          THEN TRUE ELSE admin_logged_in
    /\ last' = Last("admin_login", <<username, password>>, "", 0, 0, <<>>, <<>>)
    /\ UNCHANGED <<products, theme, config_xml>>

admin_logout ==
    /\ admin_logged_in' = FALSE
    /\ last' = Last("admin_logout", NoRequest, "", 0, 0, <<>>, <<>>)
    /\ UNCHANGED <<products, theme, config_xml>>

\* admin_required: without the session flag the view is not called.
Redirected(op) ==
    /\ ~admin_logged_in
    /\ last' = Last(op, NoRequest, "redirect: admin_login", 0, 0, <<>>, <<>>)
    /\ UNCHANGED <<products, admin_logged_in, theme, config_xml>>

\* ------------------------------------------------------- POST /import
\* The exception that leaves the view ("" when the product is added) for the
\* form fields (name, price, category) on the given table.
import_data_error(table, form) ==
    IF form.name = Absent \/ form.price = Absent THEN "BadRequestKeyError"
    ELSE IF float(form.price).err # "" THEN float(form.price).err
    ELSE InsertError(table, form.name, float(form.price))

import_data_table(table, form) ==
    IF import_data_error(table, form) = ""
    THEN Stored(table, form.name, float(form.price),
                IF form.category = Absent THEN <<>> ELSE form.category)
    ELSE table

import_data(Forms) ==
    \/ Redirected("import_data")
    \/ /\ admin_logged_in
       /\ Len(products) < MaxProducts
       /\ \E form \in Forms :
             /\ products' = import_data_table(products, form)
             /\ last' = Last("import_data", form, import_data_error(products, form),
                             0, 0, <<>>, <<>>)
       /\ UNCHANGED <<admin_logged_in, theme, config_xml>>

\* --------------------------------------------------- POST /import-file
\* The inner try block on one parsed CSV row.
file_row(prod) ==
    LET n0 == IF prod.name = Absent THEN <<>> ELSE prod.name
        name == IF IsStr(n0) THEN strip(n0) ELSE n0
        pr == IF prod.price = Absent THEN float(<<"0">>) ELSE float(prod.price)
        c0 == IF prod.category = Absent THEN <<>> ELSE prod.category
        c1 == IF IsStr(c0) THEN strip(c0) ELSE c0
        category == IF c1 = <<>> THEN None ELSE c1
        err == IF n0 = None
               THEN "AttributeError: 'NoneType' object has no attribute 'strip'"
               ELSE IF pr.err = "TypeError" THEN "TypeError: float() argument"
               ELSE IF pr.err = "ValueError"
                    THEN "ValueError: could not convert string to float"
               ELSE IF c0 = None
                    THEN "AttributeError: 'NoneType' object has no attribute 'strip'"
               ELSE IF name = <<>> THEN "ValueError: Missing name"
               ELSE ""
    IN [err |-> err, name |-> name, price |-> pr, category |-> category]

file_row_of == [prod \in AllRows |-> file_row(prod)]

\* for prod in products: [table, success, errors, storage_failed]; success is
\* incremented after every INSERT OR IGNORE that does not raise.  fails holds
\* the indices of the rows at which conn.execute raises; the inner except
\* clause catches that exception as well.
RECURSIVE file_loop(_, _, _, _, _, _, _)
file_loop(table, rows, fails, i, success, errors, storage_failed) ==
    IF i > Len(rows)
    THEN [table |-> table, success |-> success, errors |-> errors,
          storage_failed |-> storage_failed]
    ELSE LET prod == rows[i]
             b == file_row_of[prod]
         IN IF b.err # ""
            THEN file_loop(table, rows, fails, i + 1, success,
                           Append(errors, RowError(prod, b.err)), storage_failed)
            ELSE IF i \in fails
                 THEN file_loop(table, rows, fails, i + 1, success,
                                Append(errors, RowError(prod, StorageFailure)),
                                storage_failed \cup {i})
            ELSE IF InsertOrIgnoreRowcount(table, b.name, b.price) = 1
                 THEN file_loop(Stored(table, b.name, b.price, b.category),
                                rows, fails, i + 1, success + 1, errors, storage_failed)
                 ELSE file_loop(table, rows, fails, i + 1, success + 1, errors,
                                storage_failed)

file_result_failing(table, rows, fails) == file_loop(table, rows, fails, 1, 0, <<>>, {})

\* The loop when every statement reaches the storage engine.
file_result(table, rows) == file_result_failing(table, rows, {})

import_file(Files, storage_may_fail) ==
    \/ Redirected("import_file")
    \/ /\ admin_logged_in
       /\ \E upload \in Files :
             /\ upload.kind # "csv"
             /\ last' = Last("import_file", upload, "flash: " \o upload.kind, 0, 0, <<>>, <<>>)
       /\ UNCHANGED <<products, admin_logged_in, theme, config_xml>>
    \/ /\ admin_logged_in
       /\ Len(products) < MaxProducts
       /\ \E upload \in Files :
             /\ upload.kind = "csv"
             /\ \E fails \in FailSets(upload.rows, storage_may_fail) :
                   \E r \in {file_result_failing(products, upload.rows, fails)} :
                      /\ products' = r.table
                      /\ last' = LastStorage("import_file", upload, r.storage_failed,
                                             "", r.success, Len(r.errors), r.errors,
                                             <<>>)
       /\ UNCHANGED <<admin_logged_in, theme, config_xml>>

\* -------------------------------------------------------------- seeding
\* r.get(key) on a csv.DictReader row whose keys follow the header row.
CsvGet(r, key, header) ==
    LET lowerKeys == {"name", "price", "category"}
        field == CASE key \in {"name", "Name"} -> r.name
                   [] key \in {"price", "Price"} -> r.price
                   [] OTHER -> r.category
    IN IF (key \in lowerKeys) = (header = "lower") THEN field ELSE None

Truthy(v) == v # None /\ v # <<>>

\* (r.get(a) or r.get(b) or "").strip()
GetEither(r, a, b, header) ==
    strip(IF Truthy(CsvGet(r, a, header)) THEN CsvGet(r, a, header)
          ELSE IF Truthy(CsvGet(r, b, header)) THEN CsvGet(r, b, header)
          ELSE <<>>)

\* One CSV row as the seed loops read it; category is None when blank.
seed_row(r, header) ==
    LET c == GetEither(r, "category", "Category", header)
    IN Row(GetEither(r, "name", "Name", header),
           GetEither(r, "price", "Price", header),
           IF c = <<>> THEN None ELSE c)

\* products_list: the rows that have both a name and a price.
RECURSIVE seed_list(_, _)
seed_list(rows, header) ==
    IF rows = <<>> THEN <<>>
    ELSE LET d == seed_row(Head(rows), header)
         IN (IF d.name = <<>> \/ d.price = <<>> THEN <<>> ELSE <<d>>)
            \o seed_list(Tail(rows), header)

_products_count(table) == Len(table)

\* Seeding without the check that the table is empty.
seed_table_NoCountCheck(table, dataset) ==
    IF ~dataset.exists THEN table
    ELSE bulk_result(table, seed_list(dataset.rows, dataset.header)).table

\* The table after seed_from_csv_if_needed.
seed_table(table, dataset) ==
    IF _products_count(table) > 0 THEN table
    ELSE IF ~dataset.exists THEN table
    ELSE bulk_result(table, seed_list(dataset.rows, dataset.header)).table

seed_from_csv_if_needed(dataset) ==
    /\ products' = seed_table(products, dataset)
    /\ last' = Last("seed_from_csv_if_needed", dataset, "", 0, 0, <<>>, <<>>)
    /\ UNCHANGED <<admin_logged_in, theme, config_xml>>

\* ensure_db_initialized: float(price) is applied while the list is built, so
\* one non-numeric price raises before any row is inserted.
ensure_error(table, dataset) ==
    IF _products_count(table) > 0 \/ ~dataset.exists THEN ""
    ELSE LET l == seed_list(dataset.rows, dataset.header)
         IN IF \E i \in 1..Len(l) : float(l[i].price).err # "" THEN "ValueError" ELSE ""

\* conn.executemany(INSERT OR IGNORE ...)
RECURSIVE executemany(_, _)
executemany(table, l) ==
    IF l = <<>> THEN table
    ELSE LET d == Head(l)
             pr == float(d.price)
         IN executemany(IF InsertOrIgnoreRowcount(table, d.name, pr) = 1
                        THEN Stored(table, d.name, pr, d.category) ELSE table,
                        Tail(l))

ensure_table(table, dataset) ==
    IF _products_count(table) > 0 \/ ~dataset.exists THEN table
    ELSE IF ensure_error(table, dataset) # "" THEN table
    ELSE executemany(table, seed_list(dataset.rows, dataset.header))

ensure_db_initialized(dataset) ==
    /\ products' = ensure_table(products, dataset)
    /\ last' = Last("ensure_db_initialized", dataset, ensure_error(products, dataset),
                    0, 0, <<>>, <<>>)
    /\ UNCHANGED <<admin_logged_in, theme, config_xml>>

\* --------------------------------------------------------------- search
\* SELECT ... WHERE name LIKE ? OR category LIKE ? with both parameters
\* bound to '%' + query + '%'.
Pattern(query) == <<"%">> \o query \o <<"%">>

\* A search that looks at the name column only.
Selected_NameOnly(table, query) ==
    SelectSeq(table, LAMBDA row : SqlLike(row.name, Pattern(query)))

Selected(table, query) ==
    SelectSeq(table, LAMBDA row : \/ SqlLike(row.name, Pattern(query))
                                  \/ SqlLike(row.category, Pattern(query)))

search_products(Qs) ==
    /\ \E query \in Qs :
          last' = Last("search_products", query, "", 0, 0, <<>>, Selected(products, query))
    /\ UNCHANGED <<products, admin_logged_in, theme, config_xml>>

search(Qs) ==
    /\ \E query \in Qs :
          last' = Last("search", query, "", 0, 0, <<>>, Selected(products, query))
    /\ UNCHANGED <<products, admin_logged_in, theme, config_xml>>

\* ------------------------------------------------- POST /change-theme
\* The view has no admin_required decorator.  file.save overwrites config.xml,
\* then the theme dict is cleared and refilled from load_config().
change_theme(Files) ==
    \/ /\ \E upload \in Files :
             /\ upload.kind # "xml"
             /\ last' = Last("change_theme", upload, "flash: " \o upload.kind, 0, 0, <<>>, <<>>)
       /\ UNCHANGED <<products, admin_logged_in, theme, config_xml>>
    \/ /\ \E upload \in Files :
             /\ upload.kind = "xml"
             /\ config_xml' = upload.config
             /\ theme' = load_config(upload.config)
             /\ last' = Last("change_theme", upload, "", 0, 0, <<>>, <<>>)
       /\ UNCHANGED <<products, admin_logged_in>>

\* ----------------------------------------------------- specifications
Next ==
    \/ insert_product(ProductInputs)
    \/ bulk_insert_products(Batches, FALSE)
    \/ \E u \in Usernames, p \in Passwords : admin_login(u, p)
    \/ admin_logout
    \/ import_data(FormRows)
    \/ import_file(Uploads, FALSE)
    \/ \E dataset \in Datasets : seed_from_csv_if_needed(dataset)
    \/ \E dataset \in Datasets : ensure_db_initialized(dataset)
    \/ search_products(Queries)
    \/ search(Queries)

Spec == Init /\ [][Next]_vars

\* The same handlers on rows with long names.
NextLen ==
    \/ import_data(LenRows)
    \/ import_file({CsvFile(<<r>>) : r \in LenRows} \cup {NoFilePart}, FALSE)
    \/ bulk_insert_products({<<r>> : r \in LenRows}, FALSE)
    \/ insert_product({[name |-> r.name, price |-> float(r.price), category |-> None] :
                          r \in LenRows})
    \/ \E u \in Usernames, p \in Passwords : admin_login(u, p)
    \/ admin_logout

SpecLen == Init /\ [][NextLen]_vars

\* Inserting and searching the products of the discount example.
NextDiscount ==
    \/ bulk_insert_products(SeqsUpTo(DiscountRows, 2), FALSE)
    \/ import_data(DiscountRows)
    \/ \E u \in Usernames, p \in Passwords : admin_login(u, p)
    \/ search_products(DiscountQueries)
    \/ search(DiscountQueries)

SpecDiscount == Init /\ [][NextDiscount]_vars

\* The requests a browser can send: the routes of app.py.
NextRequests ==
    \/ \E u \in Usernames, p \in Passwords : admin_login(u, p)
    \/ admin_logout
    \/ import_data(FormRows)
    \/ import_file(Uploads, FALSE)
    \/ search(Queries)
    \/ change_theme(ThemeUploads)

SpecRequests == Init /\ [][NextRequests]_vars

\* The bulk imports when a row's INSERT may fail in the storage engine.
NextStorage ==
    \/ bulk_insert_products(Batches, TRUE)
    \/ import_file(Uploads, TRUE)
    \/ \E u \in Usernames, p \in Passwords : admin_login(u, p)
    \/ admin_logout

SpecStorage == Init /\ [][NextStorage]_vars

\* ------------------------------------------------------------ properties
Range(f) == {f[i] : i \in DOMAIN f}

fold(s) == [i \in 1..Len(s) |-> lower(s[i])]

\* q occurs in s as text, up to the ASCII case folding the store applies.
Contains(s, q) ==
    \E i \in 0..(Len(s) - Len(q)) : fold(SubSeq(s, i + 1, i + Len(q))) = fold(q)

Substrings(s) == {SubSeq(s, i, j) : i \in 1..(Len(s) + 1), j \in 0..Len(s)}

SingleOps == {"insert_product", "import_data"}
BulkOps == {"bulk_insert_products", "import_file"}
SeedOps == {"seed_from_csv_if_needed", "ensure_db_initialized"}
SearchOps == {"search_products", "search"}

\* The last request was a single insert that reached its INSERT statement or
\* failed before it (it was not turned away by admin_required).
SingleCall == last.op \in SingleOps /\ last.raised # "redirect: admin_login"

\* The last request was a bulk import that went through its row loop.
BulkCall ==
    \/ last.op = "bulk_insert_products"
    \/ last.op = "import_file" /\ last.arg.kind = "csv"

BulkRows == IF last.op = "import_file" THEN last.arg.rows ELSE last.arg

\* The price of the last form insert as a number.
SinglePrice == float(last.arg.price)

\* The rows the last request appended to the table.
Added == SubSeq(products, Len(last.pre) + 1, Len(products))

TrimmedName(row) == IF IsStr(row.name) THEN strip(row.name) ELSE row.name

\* A row passes the bulk validation the specification describes: it has a name
\* that is not empty once trimmed and a price that parses as a number.
ValidRow(row) ==
    /\ IsStr(row.name) /\ strip(row.name) # <<>>
    /\ IsStr(row.price) /\ float(row.price).err = ""

\* Row i of the last batch names a product that is persisted when the row is
\* reached: one stored before the call, or one stored for an earlier row.
DuplicateRow(i) ==
    /\ ValidRow(BulkRows[i])
    /\ \/ TrimmedName(BulkRows[i]) \in Names(last.pre)
       \/ /\ TrimmedName(BulkRows[i]) \in Names(Added)
          /\ \E j \in 1..(i - 1) : /\ ValidRow(BulkRows[j])
                                   /\ TrimmedName(BulkRows[j]) = TrimmedName(BulkRows[i])

\* C1: every persisted product has a non-empty name, a price >= 0 and a name
\* that no other persisted product has.
C1_PersistedProductsValid ==
    \A i \in 1..Len(products) :
        /\ products[i].name # <<>>
        /\ products[i].price >= 0
        /\ \A j \in 1..Len(products) : j # i => products[j].name # products[i].name

\* C2: on both bulk paths a row whose trimmed name is already persisted adds no
\* product, has no entry in the error list and is not counted as a success: the
\* success count does not exceed the number of valid rows that are not duplicates.
C2_DuplicatesSkippedAndCounted ==
    BulkCall =>
        /\ last.success <= Cardinality({i \in 1..Len(BulkRows) :
                                          ValidRow(BulkRows[i]) /\ ~DuplicateRow(i)})
        /\ \A i \in 1..Len(BulkRows) :
              DuplicateRow(i) =>
                 /\ \A k \in 1..Len(last.errors) : last.errors[k].row # BulkRows[i]
                 /\ Cardinality({j \in 1..Len(products) :
                                   products[j].name = TrimmedName(BulkRows[i])}) = 1

\* C3: a single insert whose trimmed name equals the trimmed name of a persisted
\* product is rejected with an error and leaves the table as it was.
C3_SingleInsertRejectsDuplicate ==
    ( /\ SingleCall
      /\ IsStr(last.arg.name)
      /\ strip(last.arg.name) \in {strip(n) : n \in Names(last.pre)} )
    => (last.raised # "" /\ products = last.pre)

\* The rows of the table whose name or category contains q as text.
LiteralMatches(table, q) ==
    SelectSeq(table, LAMBDA row : \/ Contains(row.name, q)
                                  \/ row.category # None /\ Contains(row.category, q))

\* C4: search returns exactly the products whose name or category contains the
\* query as a literal substring; %, _ and \ in the query are ordinary text.
C4_SearchIsLiteralSubstring ==
    last.op \in SearchOps => last.result = LiteralMatches(products, last.arg)

SearchTexts(row) ==
    Substrings(row.name) \cup (IF row.category = None THEN {} ELSE Substrings(row.category))

\* C5: every persisted product is returned by a search for any substring of its
\* name or of its non-null category, whatever else has been inserted since; in
\* particular the last search returned every product that contains its query.
C5_InsertedProductFoundBySubstring ==
    /\ \A i \in 1..Len(products) :
          \A q \in SearchTexts(products[i]) :
             products[i] \in Range(Selected(products, q))
    /\ last.op \in SearchOps =>
          \A i \in 1..Len(products) :
             last.arg \in SearchTexts(products[i]) => products[i] \in Range(last.result)

\* A search for the text "c_" (an underscore in the query) returned the product
\* stored with category "c_", in a table holding other products as well.
C5_Witness ==
    /\ last.op \in SearchOps
    /\ last.arg = <<"c", "_">>
    /\ Len(products) >= 2
    /\ \E i \in 1..Len(products) :
          /\ products[i].category = <<"c", "_">>
          /\ products[i] \in Range(last.result)

\* C6: a bulk import never raises; its error count is the length of its error
\* list and the number of invalid rows, the error entries name the invalid rows
\* in row order with a reason, and every valid row is in the table afterwards.
\* Three rows with distinct new names, the second with price "abc", give 2 and 1.
C6_BulkBestEffortAccounting ==
    BulkCall =>
        /\ last.raised = ""
        /\ last.error_count = Len(last.errors)
        /\ [k \in 1..Len(last.errors) |-> last.errors[k].row]
              = SelectSeq(BulkRows, LAMBDA row : ~ValidRow(row))
        /\ \A k \in 1..Len(last.errors) : last.errors[k].reason # ""
        /\ \A i \in 1..Len(BulkRows) :
              ValidRow(BulkRows[i]) => TrimmedName(BulkRows[i]) \in Names(products)
        /\ (BulkRows = <<R1, R3, R5>> /\ last.pre = <<>>)
              => (last.success = 2 /\ last.error_count = 1)

\* C7: on every insertion path a name longer than 200 characters once trimmed is
\* rejected with an error and not persisted, and a name of exactly 200
\* characters once trimmed is persisted.
C7_NameLengthLimit ==
    /\ SingleCall =>
          /\ Len(strip(last.arg.name)) > 200 => (last.raised # "" /\ products = last.pre)
          /\ (Len(strip(last.arg.name)) = 200 /\ last.arg.name \notin Names(last.pre))
                => last.arg.name \in Names(products)
    /\ BulkCall =>
          \A i \in 1..Len(BulkRows) :
             /\ Len(TrimmedName(BulkRows[i])) > 200 =>
                   /\ TrimmedName(BulkRows[i]) \notin Names(Added)
                   /\ \E k \in 1..Len(last.errors) : last.errors[k].row = BulkRows[i]
             /\ Len(TrimmedName(BulkRows[i])) = 200 =>
                   TrimmedName(BulkRows[i]) \in Names(products)

\* C8: on every path that parses a price (the form handler and both bulk
\* imports) a price that parses to a negative number is rejected with an error
\* (a row error on the bulk paths) and not persisted, and a price of 0 is
\* persisted.
C8_NegativePriceRejected ==
    /\ (last.op = "import_data" /\ SingleCall /\ SinglePrice.err = "" /\ ~SinglePrice.nan) =>
          /\ SinglePrice.val < 0 => (last.raised # "" /\ products = last.pre)
          /\ (SinglePrice.val = 0 /\ last.arg.name \notin Names(last.pre))
                => \E j \in 1..Len(Added) : Added[j].price = 0
    /\ BulkCall =>
          \A i \in 1..Len(BulkRows) :
             (ValidRow(BulkRows[i]) /\ ~float(BulkRows[i].price).nan) =>
                /\ float(BulkRows[i].price).val < 0 =>
                      /\ \A j \in 1..Len(Added) : Added[j].price >= 0
                      /\ \E k \in 1..Len(last.errors) : last.errors[k].row = BulkRows[i]
                /\ (float(BulkRows[i].price).val = 0 /\ ~DuplicateRow(i)
                      /\ IsStr(BulkRows[i].category))
                      => \E j \in 1..Len(Added) :
                            /\ Added[j].name = TrimmedName(BulkRows[i])
                            /\ Added[j].price = 0

\* C9: the form handler and the bulk paths treat a record alike: on the same
\* table either both reject (name, price, category) or both persist the same
\* product with trimmed name and trimmed category, an empty category as null.
C9_SingleAndBulkAgree ==
    (last.op = "import_data" /\ SingleCall) =>
        /\ products = file_result(last.pre, <<last.arg>>).table
        /\ products = bulk_result(last.pre, <<last.arg>>).table
        /\ \A j \in 1..Len(Added) :
              /\ Added[j].name = strip(last.arg.name)
              /\ Added[j].category # <<>>
              /\ Added[j].category # None => Added[j].category = strip(last.arg.category)

\* C10: seeding leaves a table that already holds a product exactly as it was;
\* rows are added by seeding only to an empty table, and only from the dataset.
C10_SeedingNoOpWhenNonEmpty ==
    last.op \in SeedOps =>
        /\ Len(last.pre) > 0 => products = last.pre
        /\ products # last.pre =>
              /\ last.pre = <<>>
              /\ last.arg.exists
              /\ Names(products) \subseteq {TrimmedName(r) : r \in Range(last.arg.rows)}

\* Seeding ran on a non-empty table with a dataset that holds a valid row whose
\* name the table does not have.
C10_Witness ==
    /\ last.op \in SeedOps
    /\ Len(last.pre) > 0
    /\ last.arg.exists
    /\ \E i \in 1..Len(last.arg.rows) :
          /\ ValidRow(last.arg.rows[i])
          /\ TrimmedName(last.arg.rows[i]) \notin Names(products)

\* C11: over the routes of the application, a request changes the products
\* table, the theme or config.xml only when it is made in a session that is
\* logged in as admin.
C11_OnlyAdminChangesStoreOrTheme ==
    [][(products' # products \/ theme' # theme \/ config_xml' # config_xml)
          => admin_logged_in]_vars

\* C12: when the storage engine fails on a row of a bulk import, the import
\* raises a storage error and stops there: the failure has no entry in the
\* error list and no row after the failing one is processed (none is added to
\* the table, none gets an error entry).
C12_StorageFailureAbortsBulk ==
    (BulkCall /\ last.storage_failed # {}) =>
        LET first == CHOOSE i \in last.storage_failed :
                        \A j \in last.storage_failed : i <= j
        IN /\ last.raised # ""
           /\ \A k \in 1..Len(last.errors) : last.errors[k].reason # StorageFailure
           /\ Len(last.errors) <= first - 1
           /\ Len(Added) <= first - 1

====
